---- MODULE Spec2Model ----
(***************************************************************************)
(* FabMo AppMaker (src/src/app.jsx): the text-to-form derivation engine    *)
(* of FabMoOpenSBPApp.  The program text is split into sections, every     *)
(* section yields a list of typed fields, the Value Store is reconciled    *)
(* against the fields, and a run submits a compiled preamble followed by   *)
(* the section text.                                                       *)
(*                                                                         *)
(* Text.  A JavaScript string is modelled by its lines and the line        *)
(* terminators between them: [lines |-> <<l1, ..., ln>>, seps |->          *)
(* <<s1, ..., s(n-1)>>], n >= 1, every separator "LF" or "CRLF".  A line   *)
(* is the line's own text, taken from a small alphabet; the regular        *)
(* expressions of the source are tabulated over that alphabet.             *)
(*                                                                         *)
(* Values.  A JavaScript value is [t |-> <typeof>, v |-> <literal>]:       *)
(* the empty string is Str(""), the number 1.5 is Num("1.5"), false is     *)
(* Bool("false"), and null and undefined are the values Null and Undef.    *)
(***************************************************************************)
EXTENDS Integers, Sequences, FiniteSets, TLC

VARIABLES
    code,           \* useState code: the program text
    sectionModels,  \* useMemo sectionModels, recomputed with code
    values,         \* useState values: the Value Store, key -> value
    effectPending,  \* the reconciliation effect for sectionModels has not run yet
    running,        \* useState running
    runMsg,         \* useState runMsg
    configVars,     \* useState configVars: external state for @checkmark
    runs,           \* the runSection invocations that have not finished
    mountFetch,     \* the getFabMoConfigVars call of the mount effect is outstanding
    hostBound,      \* window.fabmo is present
    hist,           \* history: the entry the user set last, and what became of it
    probe,          \* results of the function under check (function specifications)
    storage         \* localStorage: the item of LS_VALS_KEY, and whether access throws

vars == <<code, sectionModels, values, effectPending, running, runMsg, configVars,
          runs, mountFetch, hostBound, hist, probe, storage>>

(***************************************************************************)
(* Bounds of the model.                                                    *)
(***************************************************************************)
\* longest text, in lines, given to parseSections on its own
MaxLines == 4
\* longest text, in lines, the editor holds in the application model
MaxAppLines == 2
\* runSection invocations the model can hold at once
MaxActive == 2
\* longest text, in lines, the reconciliation pass is given on its own
MaxReconLines == 2
\* longest text, in lines, the section models are derived from on their own
MaxModelLines == 3
\* longest text, in lines, of the sections whose completion is evaluated
MaxCheckLines == 2
\* longest text, in lines, of the sections that are compiled and submitted,
\* and the most entries of the store they are compiled from
MaxRunLines == 4
MaxRunEntries == 2
\* longest text, in lines, of the sections that share a variable name
MaxSharedLines == 4
\* longest text, in lines, that parseDirectivesIn is applied to on its own
MaxDirectiveLines == 3
\* longest text, in lines, of the sections that are run with checkmarks
MaxRefetchLines == 3

(***************************************************************************)
(* JavaScript values.                                                      *)
(***************************************************************************)
Str(s) == [t |-> "string", v |-> s]
Num(n) == [t |-> "number", v |-> n]
Bool(b) == [t |-> "boolean", v |-> b]
Null == [t |-> "object", v |-> "null"]
Undef == [t |-> "undefined", v |-> "undefined"]
None == [t |-> "none", v |-> "none"]

(***************************************************************************)
(* Text and lines.                                                         *)
(***************************************************************************)
Text(ls, ss) == [lines |-> ls, seps |-> ss]

\* code.split(/\r?\n/): the lines, without their terminators
SplitLines(text) == text.lines

\* lines.join("\n"); the join of no line is the empty string, the text of
\* one empty line
JoinLF(ls) ==
    IF ls = <<>> THEN Text(<<"">>, <<>>)
    ELSE Text(ls, [i \in 1..(Len(ls) - 1) |-> "LF"])

\* lines.slice(start, end), start and end counted from 0
Slice(ls, start, end) == SubSeq(ls, start + 1, end)

\* SECTION_HEADER = /^\s*(?:[';]\s*)?#\s*(.+?)\s*$/ on one line: the title
\* (m[1].trim()), or None when the line does not match
HeaderMatch(line) ==
    CASE line = "# A" -> Str("A")
      [] line = "' #B" -> Str("B")
      [] OTHER -> None

IsHeaderLine(line) == HeaderMatch(line) # None

(***************************************************************************)
(* parseSections                                                           *)
(***************************************************************************)
\* headers: the 0-based indices of the header lines, in text order
RECURSIVE HeadersFrom(_, _)
HeadersFrom(lines, i) ==
    IF i >= Len(lines) THEN <<>>
    ELSE IF IsHeaderLine(lines[i + 1])
         THEN <<[line |-> i, title |-> HeaderMatch(lines[i + 1]).v]>>
              \o HeadersFrom(lines, i + 1)
         ELSE HeadersFrom(lines, i + 1)

SecId(i) == <<"sec", i>>

\* the result for a text without header: one section, the whole text
MainSectionJoined(text, lines) ==
    <<[id |-> SecId(0), title |-> "Main", start |-> 0, end |-> Len(lines),
       text |-> JoinLF(lines)]>>

MainSection(text, lines) ==
    <<[id |-> SecId(0), title |-> "Main", start |-> 0, end |-> Len(lines),
       text |-> text]>>

\* const start = headers[i].line + 1 (i counted from 1 here)
SectionStartAtHeader(headers, i) == headers[i].line

SectionStart(headers, i) == headers[i].line + 1

\* const end = (i + 1 < headers.length) ? headers[i + 1].line : lines.length
SectionEndAtText(headers, i, lines) == Len(lines)

SectionEnd(headers, i, lines) ==
    IF i + 1 <= Len(headers) THEN headers[i + 1].line ELSE Len(lines)

parseSections(text) ==
    LET lines == SplitLines(text)
        headers == HeadersFrom(lines, 0)
    IN  IF Len(headers) = 0
        THEN MainSection(text, lines)
        ELSE [i \in 1..Len(headers) |->
                LET start == SectionStart(headers, i)
                    end == SectionEnd(headers, i, lines)
                IN  [id |-> SecId(i - 1), title |-> headers[i].title,
                     start |-> start, end |-> end,
                     text |-> JoinLF(Slice(lines, start, end))]]

(***************************************************************************)
(* The regular expressions, tabulated over the line alphabet.              *)
(***************************************************************************)
\* VAR_REGEX = /&([A-Za-z][A-Za-z0-9_]*)/g on one line: the names, in order
\* of occurrence (comment lines and @input lines match like code lines)
VarsOfLine(line) ==
    CASE line = "MS, &Radius" -> <<"Radius">>
      [] line = "' @input &Radius default=1.5" -> <<"Radius">>
      [] line = "' @input &UseTabs default=yes" -> <<"UseTabs">>
      [] line = "PRINT &Name" -> <<"Name">>
      [] line = "' @input &Name options=a,b" -> <<"Name">>
      [] line = "J2, &Name, &Radius" -> <<"Name", "Radius">>
      [] line = "' set &UseTabs, &Name" -> <<"UseTabs", "Name">>
      [] line = "' @checkmark &Done" -> <<"Done">>
      [] line = "' @input &Name prompt=Who label=Owner" -> <<"Name">>
      [] line = "' @input &Radius label=R" -> <<"Radius">>
      [] line = "' @input &Name" -> <<"Name">>
      [] line = "' @input &Radius default" -> <<"Radius">>
      [] line = "' @input &Radius label= default=2" -> <<"Radius">>
      [] line = "' @input &Radius label=\"Tool radius" -> <<"Radius">>
      [] OTHER -> <<>>

NoCfg == [k \in {} |-> ""]

NoDirective == [var |-> "", cfg |-> NoCfg]

\* DIRECTIVE_REGEX on one line, then attrRegex on its tail: the variable
\* (m[1] without &) and the parsed attributes cfg, or NoDirective
DirectiveOfLine(line) ==
    CASE line = "' @input &Radius default=1.5" ->
            [var |-> "Radius", cfg |-> ("default" :> "1.5")]
      [] line = "' @input &UseTabs default=yes" ->
            [var |-> "UseTabs", cfg |-> ("default" :> "yes")]
      [] line = "' @input &Name options=a,b" ->
            [var |-> "Name", cfg |-> ("options" :> "a,b")]
      [] line = "' @input &Name prompt=Who label=Owner" ->
            [var |-> "Name", cfg |-> ("prompt" :> "Who" @@ "label" :> "Owner")]
      [] line = "' @input &Radius label=R" ->
            [var |-> "Radius", cfg |-> ("label" :> "R")]
      [] line = "' @input &Radius default" ->
            [var |-> "Radius", cfg |-> NoCfg]
      [] line = "' @input &Radius label= default=2" ->
            [var |-> "Radius", cfg |-> ("default" :> "2")]
      [] line = "' @input &Radius label=\"Tool radius" ->
            [var |-> "Radius", cfg |-> ("label" :> "\"Tool")]
      [] OTHER -> NoDirective

\* DIRECTIVE_REGEX up to m[1] on a line that ends with the variable: the
\* variable, or None. The \s+ that follows m[1] needs one character at least
\* and finds none on the line
OpenDirectiveOfLine(line) ==
    CASE line = "' @input &Name" -> Str("Name")
      [] OTHER -> None

\* attrRegex over a whole line, for a line that m[2] captures: \w+= occurs
\* in the lines of the model in the attribute tails only
AttrsOfLine(line) ==
    IF DirectiveOfLine(line) # NoDirective THEN DirectiveOfLine(line).cfg
    ELSE NoCfg

\* CHECKMARK_REGEX on one line: the name without its sigil, or None
CheckmarkOfLine(line) ==
    CASE line = "' @checkmark $Ran" -> Str("Ran")
      [] line = "' @checkmark &Done" -> Str("Done")
      [] line = "' @checkmark constructor" -> Str("constructor")
      [] OTHER -> None

\* the variable names of the model
VariableNames ==
    {"Radius", "UseTabs", "Name", "Done", "Gone", "DEPTH", "ToolLength",
     "UseProxy", "is_ready", "Is_On", "Enabled", "Flag1", "Undo", "Tool"}

\* varName.toLowerCase(), as the sequence of its characters
LowerCase(varName) ==
    CASE varName = "Radius" -> <<"r", "a", "d", "i", "u", "s">>
      [] varName = "UseTabs" -> <<"u", "s", "e", "t", "a", "b", "s">>
      [] varName = "Name" -> <<"n", "a", "m", "e">>
      [] varName = "Done" -> <<"d", "o", "n", "e">>
      [] varName = "Gone" -> <<"g", "o", "n", "e">>
      [] varName = "DEPTH" -> <<"d", "e", "p", "t", "h">>
      [] varName = "ToolLength" ->
            <<"t", "o", "o", "l", "l", "e", "n", "g", "t", "h">>
      [] varName = "UseProxy" -> <<"u", "s", "e", "p", "r", "o", "x", "y">>
      [] varName = "is_ready" -> <<"i", "s", "_", "r", "e", "a", "d", "y">>
      [] varName = "Is_On" -> <<"i", "s", "_", "o", "n">>
      [] varName = "Enabled" -> <<"e", "n", "a", "b", "l", "e", "d">>
      [] varName = "Flag1" -> <<"f", "l", "a", "g", "1">>
      [] varName = "Undo" -> <<"u", "n", "d", "o">>
      [] varName = "Tool" -> <<"t", "o", "o", "l">>
      [] OTHER -> <<>>

\* the alternatives of the two regular expressions of inferField
NumericWords ==
    {<<"d", "i", "a", "m", "e", "t", "e", "r">>, <<"r", "a", "d", "i", "u", "s">>,
     <<"d", "e", "p", "t", "h">>, <<"h", "e", "i", "g", "h", "t">>,
     <<"w", "i", "d", "t", "h">>, <<"s", "p", "e", "e", "d">>,
     <<"f", "e", "e", "d">>, <<"x">>, <<"y">>, <<"z">>,
     <<"a", "n", "g", "l", "e">>,
     <<"t", "h", "i", "c", "k", "n", "e", "s", "s">>, <<"s", "t", "e", "p">>,
     <<"o", "f", "f", "s", "e", "t">>,
     <<"d", "i", "s", "t", "a", "n", "c", "e">>,
     <<"l", "e", "n", "g", "t", "h">>}

BooleanPrefixes ==
    {<<"u", "s", "e">>, <<"e", "n", "a", "b", "l", "e">>, <<"f", "l", "a", "g">>,
     <<"d", "o">>, <<"i", "s", "_">>}

\* w occurs in s from position i on
OccursAt(s, w, i) == i + Len(w) - 1 <= Len(s) /\ SubSeq(s, i, i + Len(w) - 1) = w

\* /(diameter|radius|depth|height|width|speed|feed|x|y|z|angle|thickness|step
\*   |offset|distance|length)/.test(varName.toLowerCase())
NumberNames ==
    {v \in VariableNames :
        \E w \in NumericWords :
            \E i \in 1..Len(LowerCase(v)) : OccursAt(LowerCase(v), w, i)}

NumberName(varName) == varName \in NumberNames

\* /^(use|enable|flag|do|is_)/.test(varName.toLowerCase())
CheckboxNames ==
    {v \in VariableNames :
        \E w \in BooleanPrefixes : OccursAt(LowerCase(v), w, 1)}

CheckboxName(varName) == varName \in CheckboxNames

\* String(cfg.options).split(/\s*,\s*/)
SplitOptions(s) ==
    CASE s = "a,b" -> <<"a", "b">>
      [] OTHER -> <<s>>

\* Number(v) for the string and number literals of the model
NumberOf(v) ==
    CASE v.t = "number" -> v
      [] v.t = "boolean" -> Num(IF v.v = "true" THEN "1" ELSE "0")
      [] v = Null -> Num("0")
      [] v = Undef -> Num("NaN")
      [] v.t = "string" /\ v.v \in {"", "0"} -> Num("0")
      [] v.t = "string" /\ v.v \in {"1", "1.5", "2", "Infinity"} -> Num(v.v)
      [] OTHER -> Num("NaN")

\* Number.isFinite(n)
IsFiniteNum(n) == n.t = "number" /\ n.v \notin {"NaN", "Infinity", "-Infinity"}

(***************************************************************************)
(* toBool, toNumOrEmpty, extractVariables, parseDirectivesIn,              *)
(* parseCheckmarksIn, inferField                                           *)
(***************************************************************************)
toBool(v) ==
    IF v.t = "boolean" THEN v
    ELSE Bool(IF v.t = "string" /\ v.v \in {"1", "true", "yes", "y", "on"}
              THEN "true" ELSE "false")

toNumOrEmpty(v) ==
    IF v = Str("") \/ v = Undef \/ v = Null THEN Str("")
    ELSE IF IsFiniteNum(NumberOf(v)) THEN NumberOf(v) ELSE Str("")

\* the elements of s, each kept at its first occurrence (Array.from(new Set))
RECURSIVE DistinctKeepLast(_)
DistinctKeepLast(s) ==
    IF s = <<>> THEN <<>>
    ELSE LET rest == DistinctKeepLast(Tail(s))
         IN  IF \E i \in 1..Len(rest) : rest[i] = Head(s)
             THEN rest ELSE <<Head(s)>> \o rest

RECURSIVE Distinct(_)
Distinct(s) ==
    IF s = <<>> THEN <<>>
    ELSE LET front == Distinct(SubSeq(s, 1, Len(s) - 1))
             last == s[Len(s)]
         IN  IF \E i \in 1..Len(front) : front[i] = last
             THEN front ELSE Append(front, last)

RECURSIVE FlatVars(_)
FlatVars(lines) ==
    IF lines = <<>> THEN <<>>
    ELSE VarsOfLine(Head(lines)) \o FlatVars(Tail(lines))

extractVariables(text) == Distinct(FlatVars(SplitLines(text)))

\* map[varName] = cfg
SetDirective(map, varName, cfg) ==
    [v \in DOMAIN map \cup {varName} |-> IF v = varName THEN cfg ELSE map[v]]

\* the first line from i on that \s does not match as a whole, or
\* Len(lines) + 1
RECURSIVE NextNonBlank(_, _)
NextNonBlank(lines, i) ==
    IF i > Len(lines) THEN i
    ELSE IF lines[i] = "" THEN NextNonBlank(lines, i + 1)
    ELSE i

\* the matches of DIRECTIVE_REGEX from line i on, in text order, each one
\* written into map: the last one for a variable stays. On a line that ends
\* with the variable the \s+ after m[1] runs over the line separator, any
\* blank lines and the indentation of the next line, m[2] is the rest of that
\* line, and the search goes on after it (lastIndex)
RECURSIVE DirectivesFrom(_, _, _)
DirectivesFrom(lines, i, map) ==
    IF i > Len(lines) THEN map
    ELSE LET d == DirectiveOfLine(lines[i])
             o == OpenDirectiveOfLine(lines[i])
             j == NextNonBlank(lines, i + 1)
         IN  IF d # NoDirective
             THEN DirectivesFrom(lines, i + 1, SetDirective(map, d.var, d.cfg))
             ELSE IF o # None /\ i < Len(lines)
             THEN DirectivesFrom(lines, j + 1,
                      SetDirective(map, o.v,
                          IF j <= Len(lines) THEN AttrsOfLine(lines[j])
                          ELSE NoCfg))
             ELSE DirectivesFrom(lines, i + 1, map)

DirectivesOf(lines) == DirectivesFrom(lines, 1, NoCfg)

parseDirectivesIn(text) == DirectivesOf(SplitLines(text))

RECURSIVE CheckmarksOf(_)
CheckmarksOf(lines) ==
    IF lines = <<>> THEN <<>>
    ELSE LET c == CheckmarkOfLine(Head(lines))
         IN  (IF c = None THEN <<>> ELSE <<c.v>>) \o CheckmarksOf(Tail(lines))

parseCheckmarksIn(text) == CheckmarksOf(SplitLines(text))

\* cfg.<key>: the attribute as a string value, or undefined
Attr(cfg, key) == IF key \in DOMAIN cfg THEN Str(cfg[key]) ELSE Undef

\* JavaScript truthiness
Truthy(v) ==
    ~(v = Undef \/ v = Null \/ v = Str("") \/ v = Bool("false")
      \/ (v.t = "number" /\ v.v \in {"0", "NaN"}))

\* a ?? b
Coalesce(a, b) == IF a = Undef \/ a = Null THEN b ELSE a

inferFieldTypePrefixFirst(varName, cfg) ==
    IF Truthy(Attr(cfg, "type")) THEN Attr(cfg, "type").v
    ELSE IF CheckboxName(varName) THEN "checkbox"
    ELSE IF NumberName(varName) THEN "number"
    ELSE "text"

inferFieldType(varName, cfg) ==
    IF Truthy(Attr(cfg, "type")) THEN Attr(cfg, "type").v
    ELSE IF NumberName(varName) THEN "number"
    ELSE IF CheckboxName(varName) THEN "checkbox"
    ELSE "text"

inferFieldDefault(type, cfg) ==
    LET def == Coalesce(Attr(cfg, "default"), Str(""))
    IN  IF type = "checkbox" THEN toBool(def)
        ELSE IF type = "number" THEN toNumOrEmpty(def)
        ELSE def

\* options: the split list, or <<>> for null (a split list is never empty)
inferField(varName, cfg) ==
    LET type == inferFieldType(varName, cfg)
    IN  [type |-> type,
         label |-> IF Truthy(Attr(cfg, "label")) THEN cfg["label"] ELSE varName,
         default |-> inferFieldDefault(type, cfg),
         options |-> IF Truthy(Attr(cfg, "options"))
                     THEN SplitOptions(cfg["options"]) ELSE <<>>]

(***************************************************************************)
(* sectionModels                                                           *)
(***************************************************************************)
SectionModel(sec) ==
    LET directives == parseDirectivesIn(sec.text)
        vs == extractVariables(sec.text)
        fld(v) == inferField(v, IF v \in DOMAIN directives
                                THEN directives[v] ELSE NoCfg)
    IN  [id |-> sec.id, title |-> sec.title, start |-> sec.start,
         end |-> sec.end, text |-> sec.text,
         directives |-> directives,
         fields |-> [i \in 1..Len(vs) |->
                       [name |-> vs[i], type |-> fld(vs[i]).type,
                        label |-> fld(vs[i]).label,
                        default |-> fld(vs[i]).default,
                        options |-> fld(vs[i]).options]],
         checkVars |-> parseCheckmarksIn(sec.text)]

SectionModelsOf(text) ==
    LET secs == parseSections(text)
    IN  [i \in 1..Len(secs) |-> SectionModel(secs[i])]

(***************************************************************************)
(* The Value Store and its reconciliation (the effect on sectionModels)    *)
(***************************************************************************)
keyForFirstSection(secId, varName) == <<SecId(0), varName>>

keyFor(secId, varName) == <<secId, varName>>

NoValues == [k \in {} |-> Undef]

\* next[k] = v
Put(store, k, v) ==
    [x \in DOMAIN store \cup {k} |-> IF x = k THEN v ELSE store[x]]

IsEmptyVal(v) == v = Str("") \/ v = Null \/ v = Undef

\* !(k in next) || next[k] === "" || next[k] === null || next[k] === undefined
NeedsDefaultNoUndef(next, k) ==
    k \in DOMAIN next /\ (next[k] = Str("") \/ next[k] = Null)

NeedsDefaultFalsy(next, k) == k \notin DOMAIN next \/ ~Truthy(next[k])

NeedsDefault(next, k) == k \notin DOMAIN next \/ IsEmptyVal(next[k])

\* f.type === "checkbox" ? (f.default ?? false) : (f.default ?? "")
FieldDefault(f) ==
    IF f.type = "checkbox" THEN Coalesce(f.default, Bool("false"))
    ELSE Coalesce(f.default, Str(""))

\* the body of sec.fields.forEach: acc is [next, valid]
ReconcileFieldValidInIf(acc, secId, f) ==
    LET k == keyFor(secId, f.name)
    IN  IF NeedsDefault(acc.next, k)
        THEN [next |-> Put(acc.next, k, FieldDefault(f)),
              valid |-> acc.valid \cup {k}]
        ELSE acc

ReconcileField(acc, secId, f) ==
    LET k == keyFor(secId, f.name)
    IN  [next |-> IF NeedsDefault(acc.next, k)
                  THEN Put(acc.next, k, FieldDefault(f)) ELSE acc.next,
         valid |-> acc.valid \cup {k}]

RECURSIVE ReconcileFields(_, _, _)
ReconcileFields(acc, secId, fields) ==
    IF fields = <<>> THEN acc
    ELSE ReconcileFields(ReconcileField(acc, secId, Head(fields)), secId,
                         Tail(fields))

RECURSIVE ReconcileSections(_, _)
ReconcileSections(acc, models) ==
    IF models = <<>> THEN acc
    ELSE ReconcileSections(
             ReconcileFields(acc, Head(models).id, Head(models).fields),
             Tail(models))

\* Object.keys(next).forEach(k => { if (!valid.has(k)) delete next[k]; })
PruneNothing(next, valid) == next

PruneStale(next, valid) == [k \in DOMAIN next \cap valid |-> next[k]]

\* the updater given to setValues by the effect
Reconcile(prev, models) ==
    LET acc == ReconcileSections([next |-> prev, valid |-> {}], models)
    IN  PruneStale(acc.next, acc.valid)

\* the keys of the fields of the section models
FieldKeys(models) ==
    UNION {{keyFor(models[i].id, models[i].fields[j].name) :
               j \in DOMAIN models[i].fields} : i \in DOMAIN models}

\* the field of key k in the section models (k \in FieldKeys(models))
FieldOf(models, k) ==
    LET i == CHOOSE i \in DOMAIN models : models[i].id = k[1]
        j == CHOOSE j \in DOMAIN models[i].fields : models[i].fields[j].name = k[2]
    IN  models[i].fields[j]

(***************************************************************************)
(* buildPreambleForSection                                                 *)
(***************************************************************************)
\* v !== "" && v !== null && v !== undefined
hasValTruthy(v) == Truthy(v)

hasVal(v) == ~IsEmptyVal(v)

\* s.replace(/"/g, '""')
DoubleQuotes(s) ==
    CASE s = "a\"b" -> "a\"\"b"
      [] OTHER -> s

\* String(v), also what a template literal prints for v
StringOf(v) == v.v

\* values[k], undefined for a key the store does not hold
Lookup(store, k) == IF k \in DOMAIN store THEN store[k] ELSE Undef

\* one statement of the preamble: DIALOG "<msg>", &<var>, or &<var> = <rhs>
\* with rhs printed bare (quoted = FALSE) or between double quotes
PreambleStatement(store, sec, f) ==
    LET val == Lookup(store, keyFor(sec.id, f.name))
        cfg == IF f.name \in DOMAIN sec.directives
               THEN sec.directives[f.name] ELSE NoCfg
        promptMsg == DoubleQuotes(IF Truthy(Attr(cfg, "prompt"))
                                  THEN cfg["prompt"]
                                  ELSE "Please input " \o f.label)
    IN  IF ~hasVal(val)
        THEN [kind |-> "DIALOG", var |-> f.name, arg |-> promptMsg,
              quoted |-> TRUE]
        ELSE IF f.type = "number" /\ NumberOf(val).v # "NaN"
        THEN [kind |-> "ASSIGN", var |-> f.name, arg |-> StringOf(val),
              quoted |-> FALSE]
        ELSE IF f.type = "checkbox"
        THEN [kind |-> "ASSIGN", var |-> f.name,
              arg |-> IF Truthy(val) THEN "1" ELSE "0", quoted |-> FALSE]
        ELSE [kind |-> "ASSIGN", var |-> f.name,
              arg |-> DoubleQuotes(StringOf(val)), quoted |-> TRUE]

buildPreambleForSection(store, sec) ==
    [i \in 1..Len(sec.fields) |-> PreambleStatement(store, sec, sec.fields[i])]

\* the statement as the template literal prints it
StatementText(st) ==
    IF st.kind = "DIALOG"
    THEN "DIALOG \"" \o st.arg \o "\", &" \o st.var
    ELSE "&" \o st.var \o " = "
             \o (IF st.quoted THEN "\"" \o st.arg \o "\"" ELSE st.arg)

\* const pre = buildPreambleForSection(sec).join("\n");
\* const toRun = `${pre}\n\n${sec.text}`
toRun(store, sec) ==
    LET stmts == buildPreambleForSection(store, sec)
        pre == JoinLF([i \in DOMAIN stmts |-> StatementText(stmts[i])])
    IN  Text(pre.lines \o <<"">> \o sec.text.lines,
             pre.seps \o <<"LF", "LF">> \o sec.text.seps)

\* sec.text.trim() === ""
BlankText(text) == \A i \in DOMAIN text.lines : text.lines[i] = ""

\* `${pre}\n\n${sec.text}`: the preamble lines, a blank line, the section text
Payload(store, sec) ==
    [pre |-> buildPreambleForSection(store, sec), text |-> sec.text]

(***************************************************************************)
(* Inputs of the application model.                                        *)
(***************************************************************************)
AppLines ==
    {"# A", "' @input &Radius default=1.5", "PRINT &Name"}

\* the texts the editor can hold: up to MaxAppLines lines, LF terminators
AppTexts ==
    UNION {{JoinLF(ls) : ls \in [1..n -> AppLines]} : n \in 1..MaxAppLines}

\* persisted Value Store blobs (JSON): also stale keys and empty values
StaleKey == keyFor(SecId(0), "Gone")

PersistedKeys == {keyFor(SecId(0), "Radius"), StaleKey}

PersistedValues == {Num("2")}

PersistedStores ==
    UNION {[ks -> PersistedValues] : ks \in SUBSET PersistedKeys}

\* localStorage, as far as the Value Store goes: the item of LS_VALS_KEY and
\* whether getItem and setItem throw.  An item is missing, the empty string,
\* a text JSON.parse rejects (a cut-off JSON text: val is what it held), or
\* the JSON text of the store val.
Item(kind, val) == [kind |-> kind, val |-> val]

Storage(getThrows, setThrows, item) ==
    [getThrows |-> getThrows, setThrows |-> setThrows, item |-> item]

\* no localStorage at all: every access throws
NoStorage == Storage(TRUE, TRUE, Item("missing", NoValues))

\* JSON.parse(JSON.stringify(val)): an entry that is undefined is left out
Stringified(val) == [k \in {x \in DOMAIN val : val[x] # Undef} |-> val[k]]

\* loadLS(LS_VALS_KEY, fallback):
\* try { const s = getItem(key); return s ? JSON.parse(s) : fallback }
\* catch { return fallback }
loadLSLenient(st, fallback) ==
    IF st.getThrows \/ st.item.kind \in {"missing", "empty"} THEN fallback
    ELSE st.item.val

loadLS(st, fallback) ==
    IF st.getThrows THEN fallback
    ELSE IF st.item.kind \in {"missing", "empty"} THEN fallback
    ELSE IF st.item.kind = "garbage" THEN fallback
    ELSE st.item.val

\* saveLS(LS_VALS_KEY, val): try { setItem(key, JSON.stringify(val)) } catch {}
saveLS(st, val) ==
    IF st.setThrows THEN st
    ELSE [st EXCEPT !.item = Item("json", Stringified(val))]

\* what the form control of field f can hand to onChange
InputsOf(f, cur) ==
    IF f.options # <<>> THEN {Str(f.options[i]) : i \in DOMAIN f.options}
    ELSE IF f.type = "checkbox"
         THEN {Bool(IF Truthy(cur) THEN "false" ELSE "true")}
    ELSE IF f.type = "number" THEN {Str(""), Num("0"), Num("2")}
    ELSE {Str(""), Str("abc")}

\* external state mappings the host can answer getConfig with
NoConfig == [k \in {} |-> Undef]

ConfigMaps == {NoConfig, "Ran" :> Str("1")}

\* what a submission can fail with: the Error thrown by the network
\* fallback (new Error(`FabMo run failed: ${res.status}`)), and the err the
\* host binding hands to the callback of runSBP, a string
JsError(message) == [t |-> "Error", v |-> message]

Failures == {JsError("FabMo run failed: 500"), Str("busy")}

\* err?.message || String(err)
ErrorText(err) ==
    IF err.t = "Error" THEN (IF err.v # "" THEN err.v ELSE "Error")
    ELSE StringOf(err)

(***************************************************************************)
(* The application: FabMoOpenSBPApp and SectionCard.                       *)
(*                                                                         *)
(* A handler runs to completion, and the render it causes commits before   *)
(* the next event is handled, so a handler reads the state its event left. *)
(* sectionModels is a useMemo value: it is recomputed in the render that   *)
(* follows setCode.  The reconciliation is a useEffect on sectionModels:   *)
(* it runs after that render has committed, as a step of its own.          *)
(***************************************************************************)
\* hist follows one entry: the entry key that the user set last, to uval.
\* Its phase is "set"; "kept" once a pass has run with the field still in
\* the models; "removed" once a pass has run with the field gone from the
\* models; "readded" once a later pass has run with the field back.  At
\* startup it follows the persisted entry of no field ("restored"), which
\* is "purged" once a pass has run.
NoHist == [key |-> keyFor(SecId(0), ""), uval |-> Undef, phase |-> "none"]

\* useState initialisers and the first render
Init ==
    /\ hostBound \in BOOLEAN
    /\ code \in AppTexts
    /\ sectionModels = SectionModelsOf(code)
    /\ storage \in {Storage(FALSE, FALSE, Item("json", s)) : s \in PersistedStores}
    /\ values = loadLS(storage, NoValues)
    /\ effectPending = TRUE
    /\ running = FALSE
    /\ runMsg = ""
    /\ configVars = NoConfig
    /\ runs = <<>>
    /\ mountFetch = hostBound
    /\ hist = IF StaleKey \in DOMAIN values
              THEN [key |-> StaleKey, uval |-> values[StaleKey],
                    phase |-> "restored"]
              ELSE NoHist
    /\ probe = <<>>

\* Editor onChange: setCode(v), then the render recomputes the memo values
TextEdit(t) ==
    /\ t # code
    /\ code' = t
    /\ sectionModels' = SectionModelsOf(t)
    /\ effectPending' = TRUE
    /\ hist' = IF hist.phase \in {"readded", "purged"} THEN NoHist ELSE hist
    /\ UNCHANGED <<values, running, runMsg, configVars, runs, mountFetch,
                   hostBound, probe, storage>>

\* what a reconciliation pass over the models does to the history
HistAfterPass(h, models) ==
    LET present == h.key \in FieldKeys(models)
    IN  CASE h.phase \in {"set", "kept"} ->
               [h EXCEPT !.phase = IF present THEN "kept" ELSE "removed"]
          [] h.phase = "removed" ->
               [h EXCEPT !.phase = IF present THEN "readded" ELSE "removed"]
          [] h.phase = "restored" -> [h EXCEPT !.phase = "purged"]
          [] OTHER -> NoHist

\* useEffect(() => setValues(prev => ...), [sectionModels]), the render that
\* follows, and its effect saveLS(LS_VALS_KEY, values)
ReconcileEffect ==
    /\ effectPending
    /\ values' = Reconcile(values, sectionModels)
    /\ effectPending' = FALSE
    /\ hist' = HistAfterPass(hist, sectionModels)
    /\ storage' = saveLS(storage, values')
    /\ UNCHANGED <<code, sectionModels, running, runMsg, configVars, runs,
                   mountFetch, hostBound, probe>>

\* onChange of the form control of field j of section i, the render that
\* follows, and its effect saveLS(LS_VALS_KEY, values)
EditValue(i, j, val) ==
    LET sec == sectionModels[i]
        f == sec.fields[j]
        k == keyFor(sec.id, f.name)
    IN  /\ val \in InputsOf(f, Lookup(values, k))
        /\ values' = Put(values, k, val)
        /\ hist' = [key |-> k, uval |-> val, phase |-> "set"]
        /\ storage' = saveLS(storage, values')
        /\ UNCHANGED <<code, sectionModels, effectPending, running, runMsg,
                       configVars, runs, mountFetch, hostBound, probe>>

RECURSIVE ResetFields(_, _, _)
ResetFields(next, secId, fields) ==
    IF fields = <<>> THEN next
    ELSE ResetFields(Put(next, keyFor(secId, Head(fields).name),
                         FieldDefault(Head(fields))),
                     secId, Tail(fields))

\* the Reset button of section i, the render that follows, and its effect
\* saveLS(LS_VALS_KEY, values)
Reset(i) ==
    LET sec == sectionModels[i]
        ks == {keyFor(sec.id, sec.fields[j].name) : j \in DOMAIN sec.fields}
    IN  /\ values' = ResetFields(values, sec.id, sec.fields)
        /\ hist' = IF hist.key \in ks THEN NoHist ELSE hist
        /\ storage' = saveLS(storage, values')
        /\ UNCHANGED <<code, sectionModels, effectPending, running, runMsg,
                       configVars, runs, mountFetch, hostBound, probe>>

\* the Run button is rendered with
\* disabled={running || (!sec.fields.length && sec.text.trim() === "")}
RunEnabledIgnoringRunning(sec) ==
    ~(Len(sec.fields) = 0 /\ BlankText(sec.text))

RunEnabled(sec) ==
    ~(running \/ (Len(sec.fields) = 0 /\ BlankText(sec.text)))

\* onClick of the Run button of section i: runSection up to its first await
Run(i) ==
    LET sec == sectionModels[i]
    IN  /\ RunEnabled(sec)
        /\ Len(runs) < MaxActive
        /\ running' = TRUE
        /\ runMsg' = ""
        /\ runs' = Append(runs,
              [sec |-> sec.id, title |-> sec.title, pc |-> "submitted",
               reconciled |-> (values = Reconcile(values, sectionModels)),
               samePre |-> (Payload(values, sec)
                            = Payload(Reconcile(values, sectionModels), sec))])
        /\ UNCHANGED <<code, sectionModels, values, effectPending, configVars,
                       mountFetch, hostBound, hist, probe, storage>>

RemoveAt(s, r) == SubSeq(s, 1, r - 1) \o SubSeq(s, r + 1, Len(s))

\* the collaborator answers run r with res: setRunMsg, then the state fetch
\* (without a host binding getFabMoConfigVars resolves {} at once)
SubmitSucceeds(r, res) ==
    /\ runs[r].pc = "submitted"
    /\ runMsg' = IF res.t = "string" THEN res.v
                 ELSE "Submitted: " \o runs[r].title
    /\ IF hostBound
       THEN /\ runs' = [runs EXCEPT ![r].pc = "fetching"]
            /\ UNCHANGED <<configVars, running>>
       ELSE /\ runs' = RemoveAt(runs, r)
            /\ configVars' = NoConfig
            /\ running' = FALSE
    /\ UNCHANGED <<code, sectionModels, values, effectPending, mountFetch,
                   hostBound, hist, probe, storage>>

\* the collaborator rejects run r: catch, then finally
SubmitFailsResubmits(r, err) ==
    /\ runs[r].pc = "submitted"
    /\ runMsg' = ErrorText(err)
    /\ running' = TRUE
    /\ runs' = runs
    /\ UNCHANGED <<code, sectionModels, values, effectPending, configVars,
                   mountFetch, hostBound, hist, probe, storage>>

\* the rejection followed by the state fetch of the success path
SubmitFailsRefetches(r, err) ==
    /\ runs[r].pc = "submitted"
    /\ runMsg' = ErrorText(err)
    /\ runs' = [runs EXCEPT ![r].pc = "fetching"]
    /\ UNCHANGED <<code, sectionModels, values, effectPending, configVars,
                   running, mountFetch, hostBound, hist, probe, storage>>

SubmitFails(r, err) ==
    /\ runs[r].pc = "submitted"
    /\ runMsg' = ErrorText(err)
    /\ running' = FALSE
    /\ runs' = RemoveAt(runs, r)
    /\ UNCHANGED <<code, sectionModels, values, effectPending, configVars,
                   mountFetch, hostBound, hist, probe, storage>>

\* the fetch answered with no finally clause to follow
FetchReturnsNoFinally(r, cfgVars) ==
    /\ runs[r].pc = "fetching"
    /\ configVars' = cfgVars
    /\ running' = TRUE
    /\ runs' = RemoveAt(runs, r)
    /\ UNCHANGED <<code, sectionModels, values, effectPending, runMsg,
                   mountFetch, hostBound, hist, probe, storage>>

\* getConfig answers the fetch of run r (an error resolves {}): setConfigVars,
\* then finally
FetchReturns(r, cfgVars) ==
    /\ runs[r].pc = "fetching"
    /\ configVars' = cfgVars
    /\ running' = FALSE
    /\ runs' = RemoveAt(runs, r)
    /\ UNCHANGED <<code, sectionModels, values, effectPending, runMsg,
                   mountFetch, hostBound, hist, probe, storage>>

\* getConfig answers the fetch of the mount effect
MountFetchReturns(cfgVars) ==
    /\ mountFetch
    /\ configVars' = cfgVars
    /\ mountFetch' = FALSE
    /\ UNCHANGED <<code, sectionModels, values, effectPending, running, runMsg,
                   runs, hostBound, hist, probe, storage>>

Next ==
    \/ \E t \in AppTexts : TextEdit(t)
    \/ ReconcileEffect
    \/ \E i \in DOMAIN sectionModels : \E j \in DOMAIN sectionModels[i].fields :
          \E val \in {Str(""), Str("abc"), Str("a"), Str("b"), Num("0"), Num("2"),
                      Bool("true"), Bool("false")} : EditValue(i, j, val)
    \/ \E i \in DOMAIN sectionModels : Reset(i)
    \/ \E i \in DOMAIN sectionModels : Run(i)
    \/ \E r \in DOMAIN runs : \E res \in {Str("ok"), Undef} : SubmitSucceeds(r, res)
    \/ \E r \in DOMAIN runs : \E err \in Failures : SubmitFails(r, err)
    \/ \E r \in DOMAIN runs : \E c \in ConfigMaps : FetchReturns(r, c)
    \/ \E c \in ConfigMaps : MountFetchReturns(c)

Spec == Init /\ [][Next]_vars

(***************************************************************************)
(* Properties of the application (specification Spec).                     *)
(***************************************************************************)
\* a step of the program that is no user input on a form field
NonUserStep ==
    \/ \E t \in AppTexts : TextEdit(t)
    \/ ReconcileEffect
    \/ \E i \in DOMAIN sectionModels : Run(i)
    \/ \E r \in DOMAIN runs : \E res \in {Str("ok"), Undef} : SubmitSucceeds(r, res)
    \/ \E r \in DOMAIN runs : \E err \in Failures : SubmitFails(r, err)
    \/ \E r \in DOMAIN runs : \E c \in ConfigMaps : FetchReturns(r, c)
    \/ \E c \in ConfigMaps : MountFetchReturns(c)

\* C1: at most one runSection invocation is unfinished at any time, and
\* running is true exactly while one is: no second submission starts before
\* the first run has reset running, whatever the user and the collaborator do.
C1_OneOutstandingRun ==
    /\ Len(runs) <= 1
    /\ running <=> (runs # <<>>)

\* a submission is in flight while the text has been edited since and some
\* section's Run button is held back by running alone
C1_Witness ==
    /\ Len(runs) = 1
    /\ runs[1].pc = "submitted"
    /\ effectPending
    /\ \E i \in DOMAIN sectionModels : RunEnabledIgnoringRunning(sectionModels[i])

\* C5: once the reconciliation pass for the current section models has run,
\* every key of the store is the key of a field of those models (also when
\* the store was restored with other keys at startup).
C5_NoStaleKey ==
    ~effectPending => DOMAIN values \subseteq FieldKeys(sectionModels)

\* a pass has run over a store restored with the key of no field
C5_Witness ==
    /\ hist.phase = "purged"
    /\ ~effectPending
    /\ values # NoValues

\* C6: when the user has set (s, v), a pass has run with v gone from section
\* s, and a later pass has run with v back in s, the entry (s, v) holds the
\* default of the field.
C6_ReaddedHoldsDefault ==
    hist.phase = "readded" =>
        /\ hist.key \in DOMAIN values
        /\ values[hist.key] = FieldDefault(FieldOf(sectionModels, hist.key))

\* the entry is back with a default that differs from what the user had set
C6_Witness ==
    /\ hist.phase = "readded"
    /\ ~IsEmptyVal(hist.uval)
    /\ hist.key \in DOMAIN values
    /\ values[hist.key] # hist.uval

\* C7 as stated: a step that is no user input leaves the value of every
\* entry the store holds before and after it unchanged, whatever the value.
C7_OnlyUserInputUpdates ==
    [][NonUserStep =>
          \A k \in DOMAIN values \cap DOMAIN values' : values'[k] = values[k]]_vars

\* C7 (amended): a step that is no user input leaves every entry that is
\* not the empty string, null or undefined unchanged; an entry that is one
\* of these is left unchanged or set to the default of its field, and that
\* by the reconciliation pass only.
C7_OnlyUserInputUpdatesPresent ==
    [][NonUserStep =>
          \A k \in DOMAIN values \cap DOMAIN values' :
              \/ values'[k] = values[k]
              \/ /\ IsEmptyVal(values[k])
                 /\ effectPending /\ ~effectPending'
                 /\ values'[k] = FieldDefault(FieldOf(sectionModels, k))]_vars

\* the user cleared a field to the empty string, and a pass has put the
\* field's default in its place
C7_Witness ==
    /\ hist.phase = "kept"
    /\ hist.uval = Str("")
    /\ hist.key \in DOMAIN values
    /\ values[hist.key] # Str("")

\* C8: every run compiles its preamble from a store that is reconciled
\* against the section models of the current text.
C8_RunsOnReconciledStore ==
    \A r \in DOMAIN runs : runs[r].reconciled

\* C8, seen in the payload: the preamble of every run is the preamble the
\* reconciled store gives.
C8_SamePreamble ==
    \A r \in DOMAIN runs : runs[r].samePre

\* C17: when the submission of a run fails, the run ends without another
\* submission, the text and every entry of the store are after the failure
\* what they were before it, and the run message is the message of the
\* failure; starting the run changes neither the text nor the store.
C17_FailedRunLeavesState ==
    [][/\ \A r \in DOMAIN runs : \A err \in Failures :
             SubmitFails(r, err) =>
                 /\ code' = code
                 /\ values' = values
                 /\ runMsg' = err.v
                 /\ Len(runs') = Len(runs) - 1
                 /\ \A q \in DOMAIN runs' : runs'[q].pc # "submitted"
                 /\ ~running'
       /\ \A i \in DOMAIN sectionModels :
             Run(i) => (code' = code /\ values' = values)]_vars

\* a run has failed with the error of the host while the store holds what
\* the user entered
C17_Witness ==
    /\ runMsg = "busy"
    /\ runs = <<>>
    /\ ~running
    /\ hist.phase = "set"
    /\ hist.key \in DOMAIN values
    /\ values[hist.key] = hist.uval
    /\ ~IsEmptyVal(hist.uval)

(***************************************************************************)
(* parseSections on its own (specification SpecSplit): the text is drawn   *)
(* from the texts of up to MaxLines lines, with LF and CRLF terminators,   *)
(* and parseSections is applied to it.                                     *)
(***************************************************************************)
SplitAlphabet == {"# A", "' #B", "PRINT &Name", ""}

SplitTexts ==
    UNION {{Text(ls, ss) : ls \in [1..n -> SplitAlphabet],
                           ss \in [1..(n - 1) -> {"LF", "CRLF"}]} :
              n \in 1..MaxLines}

Idle ==
    /\ hostBound = FALSE
    /\ effectPending = TRUE
    /\ running = FALSE
    /\ runMsg = ""
    /\ configVars = NoConfig
    /\ runs = <<>>
    /\ mountFetch = FALSE
    /\ hist = NoHist
    /\ probe = <<>>
    /\ storage = NoStorage

InitSplit ==
    /\ code \in SplitTexts
    /\ sectionModels = <<>>
    /\ values = NoValues
    /\ Idle

ParseStep ==
    /\ probe = <<>>
    /\ probe' = <<parseSections(code)>>
    /\ UNCHANGED <<code, sectionModels, values, effectPending, running, runMsg,
                   configVars, runs, mountFetch, hostBound, hist, storage>>

SpecSplit == InitSplit /\ [][ParseStep]_vars

\* the sections that hold line i (counted from 0)
SectionsHolding(secs, i) ==
    {n \in DOMAIN secs : secs[n].start <= i /\ i < secs[n].end}

\* the 0-based index of the first header line; 0 for a text without header
FirstHeader(lines) ==
    IF \E i \in DOMAIN lines : IsHeaderLine(lines[i])
    THEN (CHOOSE i \in DOMAIN lines :
             /\ IsHeaderLine(lines[i])
             /\ \A j \in 1..(i - 1) : ~IsHeaderLine(lines[j])) - 1
    ELSE 0

\* the lines of the sections in order, each section after its header line
RECURSIVE Reassemble(_, _)
Reassemble(secs, lines) ==
    IF secs = <<>> THEN <<>>
    ELSE LET sec == Head(secs)
             body == IF sec.end > sec.start THEN SplitLines(sec.text) ELSE <<>>
         IN  (IF sec.start = 0 THEN body ELSE <<lines[sec.start]>> \o body)
             \o Reassemble(Tail(secs), lines)

\* the text the sections give back: the text of the one section of a text
\* without header, else the header lines and the section texts joined
Reassembled(secs, text) ==
    IF \A i \in DOMAIN text.lines : ~IsHeaderLine(text.lines[i])
    THEN secs[1].text
    ELSE JoinLF(Reassemble(secs, text.lines))

\* C9 as stated: every line of the text is a header line or belongs to
\* exactly one section, and the sections with their header lines reinserted
\* give back the text.
C9_SectionsPartitionText ==
    probe # <<>> =>
        /\ \A i \in 0..(Len(code.lines) - 1) :
              IF IsHeaderLine(code.lines[i + 1])
              THEN SectionsHolding(probe[1], i) = {}
              ELSE Cardinality(SectionsHolding(probe[1], i)) = 1
        /\ Reassembled(probe[1], code) = code

\* C9 (amended): every line from the first header line on (every line of a
\* text without header) is a header line or belongs to exactly one section;
\* a line before the first header belongs to no section; the sections with
\* their header lines reinserted give back the lines from the first header
\* on, and the text itself when it has no header, or starts with a header
\* and has LF terminators only.
C9_SectionsPartitionFromFirstHeader ==
    probe # <<>> =>
        LET lines == code.lines
            first == FirstHeader(lines)
        IN  /\ \A i \in 0..(Len(lines) - 1) :
                  IF i < first \/ IsHeaderLine(lines[i + 1])
                  THEN SectionsHolding(probe[1], i) = {}
                  ELSE Cardinality(SectionsHolding(probe[1], i)) = 1
            /\ Reassemble(probe[1], lines) = SubSeq(lines, first + 1, Len(lines))
            /\ ((\A i \in DOMAIN lines : ~IsHeaderLine(lines[i]))
                \/ (first = 0 /\ \A i \in DOMAIN code.seps : code.seps[i] = "LF"))
                  => Reassembled(probe[1], code) = code

\* a text of two sections whose first line is no header, split
C9_Witness ==
    /\ probe # <<>>
    /\ Len(probe[1]) = 2
    /\ ~IsHeaderLine(code.lines[1])
    /\ probe[1][2].end > probe[1][2].start

\* C10: for a text without header line, parseSections returns exactly one
\* section, sec0, titled "Main", whose text is the input and whose line
\* range is [0, number of lines).
C10_NoHeaderOneMainSection ==
    (probe # <<>> /\ \A i \in DOMAIN code.lines : ~IsHeaderLine(code.lines[i])) =>
        /\ Len(probe[1]) = 1
        /\ probe[1][1].id = SecId(0)
        /\ probe[1][1].title = "Main"
        /\ probe[1][1].text = code
        /\ probe[1][1].start = 0
        /\ probe[1][1].end = Len(code.lines)

\* a text of several lines without header, some ended by CRLF, split
C10_Witness ==
    /\ probe # <<>>
    /\ \A i \in DOMAIN code.lines : ~IsHeaderLine(code.lines[i])
    /\ Len(code.lines) >= 2
    /\ \E i \in DOMAIN code.seps : code.seps[i] = "CRLF"
    /\ Len(probe[1]) = 1

\* the 0-based indices of the header lines of the text
HeaderLines(lines) == {i \in 0..(Len(lines) - 1) : IsHeaderLine(lines[i + 1])}

\* the k-th header line of the text, k counted from 1
NthHeader(lines, k) ==
    CHOOSE h \in HeaderLines(lines) :
        Cardinality({x \in HeaderLines(lines) : x < h}) = k - 1

\* C11: for a text with n >= 1 header lines parseSections returns n
\* sections in text order; section i (from 0) has id sec<i> and the title of
\* header i, starts at the line after header i, ends at header i + 1 or, for
\* the last section, at the end of the text, and its text is those lines,
\* none of them a header line.
C11_OneSectionPerHeader ==
    (probe # <<>> /\ HeaderLines(code.lines) # {}) =>
        LET lines == code.lines
            n == Cardinality(HeaderLines(lines))
            secs == probe[1]
        IN  /\ Len(secs) = n
            /\ \A k \in 1..n :
                  LET h == NthHeader(lines, k)
                      e == IF k < n THEN NthHeader(lines, k + 1) ELSE Len(lines)
                  IN  /\ secs[k].id = SecId(k - 1)
                      /\ secs[k].title = HeaderMatch(lines[h + 1]).v
                      /\ secs[k].start = h + 1
                      /\ secs[k].end = e
                      /\ secs[k].text = JoinLF(SubSeq(lines, h + 2, e))
                      /\ \A j \in DOMAIN secs[k].text.lines :
                            ~IsHeaderLine(secs[k].text.lines[j])

\* a text of two headers with different titles, the first section empty,
\* the second one with lines up to the end of the text, split
C11_Witness ==
    /\ probe # <<>>
    /\ Len(probe[1]) = 2
    /\ probe[1][1].title # probe[1][2].title
    /\ probe[1][1].start = probe[1][1].end
    /\ probe[1][2].end - probe[1][2].start = 2
    /\ probe[1][2].end = Len(code.lines)

(***************************************************************************)
(* The reconciliation pass on its own (specification SpecRecon): the       *)
(* store and the text are drawn from bounded sets and the updater of the   *)
(* effect is applied, once and then again to its own result.               *)
(***************************************************************************)
ReconLines ==
    {"# A", "' @input &Radius default=1.5", "MS, &Radius",
     "' @input &UseTabs default=yes", "PRINT &Name", "' @input &Name options=a,b"}

ReconTexts ==
    UNION {{JoinLF(ls) : ls \in [1..n -> ReconLines]} : n \in 1..MaxReconLines}

ReconKeys ==
    {keyFor(SecId(0), "Radius"), keyFor(SecId(0), "UseTabs"),
     keyFor(SecId(1), "Name")}

ReconValues == {Str(""), Null, Bool("false"), Num("0"), Str("abc")}

ReconStores == UNION {[ks -> ReconValues] : ks \in SUBSET ReconKeys}

InitRecon ==
    /\ code \in ReconTexts
    /\ sectionModels = SectionModelsOf(code)
    /\ values \in ReconStores
    /\ Idle

ReconcilePass ==
    /\ Len(probe) < 2
    /\ probe' = Append(probe, Reconcile(IF probe = <<>> THEN values
                                        ELSE probe[Len(probe)], sectionModels))
    /\ UNCHANGED <<code, sectionModels, values, effectPending, running, runMsg,
                   configVars, runs, mountFetch, hostBound, hist, storage>>

SpecRecon == InitRecon /\ [][ReconcilePass]_vars

\* C2: a pass leaves every entry of a field of the models whose value is
\* not the empty string, null or undefined (false and 0 included) as it is.
C2_PassKeepsPresentValues ==
    probe # <<>> =>
        \A k \in FieldKeys(sectionModels) \cap DOMAIN values :
            ~IsEmptyVal(values[k]) =>
                (k \in DOMAIN probe[1] /\ probe[1][k] = values[k])

\* a pass has run over a store that held false for a checkbox field whose
\* default is true, or 0 for a number field whose default is 1.5
C2_Witness ==
    /\ probe # <<>>
    /\ \E k \in FieldKeys(sectionModels) \cap DOMAIN values :
          /\ values[k] \in {Bool("false"), Num("0")}
          /\ FieldDefault(FieldOf(sectionModels, k)) \in {Bool("true"), Num("1.5")}
          /\ probe[1][k] = values[k]

\* C3: a second pass with the same models gives the store the first gave.
C3_PassIdempotent ==
    Len(probe) = 2 => probe[2] = probe[1]

\* two passes have run; the first filled a default and deleted a stale key
C3_Witness ==
    /\ Len(probe) = 2
    /\ DOMAIN probe[1] \ DOMAIN values # {}
    /\ DOMAIN values \ DOMAIN probe[1] # {}
    /\ \E k \in DOMAIN values \cap DOMAIN probe[1] : probe[1][k] # values[k]

\* C4: after a pass the store holds, for every field of the models, an
\* entry that is not undefined.
C4_PassFillsEveryField ==
    probe # <<>> =>
        \A k \in FieldKeys(sectionModels) :
            k \in DOMAIN probe[1] /\ probe[1][k] # Undef

\* a pass has run with a directive-less field the store did not hold and a
\* directive-configured field the store held as null
C4_Witness ==
    /\ probe # <<>>
    /\ \E k \in FieldKeys(sectionModels) \ DOMAIN values :
          k[2] \notin DOMAIN sectionModels[1].directives
    /\ \E k \in FieldKeys(sectionModels) \cap DOMAIN values :
          /\ values[k] = Null
          /\ k[2] \in DOMAIN sectionModels[1].directives

(***************************************************************************)
(* The section models on their own (specification SpecModel): the text is  *)
(* drawn from the texts of up to MaxModelLines lines and the sections and  *)
(* sectionModels memos are computed from it.                               *)
(***************************************************************************)
ModelLines ==
    {"# A", "J2, &Name, &Radius", "MS, &Radius", "' @input &Name options=a,b",
     "' set &UseTabs, &Name", "' @input &Radius default=1.5"}

ModelTexts ==
    UNION {{JoinLF(ls) : ls \in [1..n -> ModelLines]} : n \in 1..MaxModelLines}

InitModel ==
    /\ code \in ModelTexts
    /\ sectionModels = <<>>
    /\ values = NoValues
    /\ Idle

ModelStep ==
    /\ probe = <<>>
    /\ probe' = <<SectionModelsOf(code)>>
    /\ UNCHANGED <<code, sectionModels, values, effectPending, running, runMsg,
                   configVars, runs, mountFetch, hostBound, hist, storage>>

SpecModel == InitModel /\ [][ModelStep]_vars

\* the places of a text where a name is referenced with the sigil: <<i, j>>
\* is the j-th reference on line i
References(text) ==
    UNION {{<<i, j>> : j \in DOMAIN VarsOfLine(text.lines[i])} :
              i \in DOMAIN text.lines}

NameAt(text, r) == VarsOfLine(text.lines[r[1]])[r[2]]

Earlier(r1, r2) == r1[1] < r2[1] \/ (r1[1] = r2[1] /\ r1[2] < r2[2])

\* the first place of the text where name is referenced
FirstReference(text, name) ==
    CHOOSE r \in References(text) :
        /\ NameAt(text, r) = name
        /\ \A q \in References(text) : NameAt(text, q) = name => ~Earlier(q, r)

\* C12: in every section model, the names of the fields are exactly the
\* names referenced with & in the section text (code, comment and @input
\* lines alike), every name has one field, with or without a directive, and
\* the fields are in the order of the first reference of their names.
C12_OneFieldPerReferencedName ==
    probe # <<>> =>
        \A n \in DOMAIN probe[1] :
            LET sec == probe[1][n]
                fs == sec.fields
            IN  /\ {fs[a].name : a \in DOMAIN fs}
                      = {NameAt(sec.text, r) : r \in References(sec.text)}
                /\ \A a, b \in DOMAIN fs : a # b => fs[a].name # fs[b].name
                /\ \A a, b \in DOMAIN fs :
                      a < b => Earlier(FirstReference(sec.text, fs[a].name),
                                       FirstReference(sec.text, fs[b].name))

\* a section whose text references a name with a directive and, more than
\* once, a name without one, and whose names are first referenced in an
\* order other than the order of their last references
C12_Witness ==
    /\ probe # <<>>
    /\ \E n \in DOMAIN probe[1] :
          LET sec == probe[1][n]
          IN  /\ Len(sec.fields) = 3
              /\ sec.fields[1].name = "UseTabs"
              /\ sec.fields[3].name = "Radius"
              /\ "Name" \in DOMAIN sec.directives
              /\ "UseTabs" \notin DOMAIN sec.directives
              /\ Cardinality({r \in References(sec.text) :
                                 NameAt(sec.text, r) = "Name"}) >= 2

(***************************************************************************)
(* The external state and the completion of sections (specification        *)
(* SpecCheck): getFabMoConfigVars asks the host for its configuration, the *)
(* answer becomes configVars, and the render evaluates isSectionComplete   *)
(* for every section.                                                      *)
(***************************************************************************)
\* the members every plain object inherits from Object.prototype
ObjectPrototypeNames ==
    {"constructor", "toString", "toLocaleString", "valueOf", "hasOwnProperty",
     "isPrototypeOf", "propertyIsEnumerable"}

\* obj?.[name] on a plain object: the own entry, else the inherited member
\* (a function), else undefined
GetProperty(obj, name) ==
    IF name \in DOMAIN obj THEN obj[name]
    ELSE IF name \in ObjectPrototypeNames THEN [t |-> "function", v |-> name]
    ELSE Undef

isSectionComplete(sec, cfgVars) ==
    IF Len(sec.checkVars) = 0 THEN FALSE
    ELSE \E i \in DOMAIN sec.checkVars :
            LET v == GetProperty(cfgVars, sec.checkVars[i])
                n == NumberOf(v)
            IN  IF v = Undef \/ v = Null THEN FALSE
                ELSE IF IsFiniteNum(n) THEN n.v # "0"
                ELSE Truthy(v)

\* what the host hands to the callback of getConfig: err, and data with or
\* without data.opensbp.variables
NoAnswer == [err |-> FALSE, hasVars |-> FALSE, variables |-> NoConfig]

HostVariables ==
    UNION {[ns -> {Str("0"), Str("1"), Str("done"), Null}] :
              ns \in SUBSET {"Ran", "Done"}}

HostAnswers ==
    {NoAnswer, [NoAnswer EXCEPT !.err = TRUE]}
    \cup {[err |-> FALSE, hasVars |-> TRUE, variables |-> m] : m \in HostVariables}

\* the mapping getFabMoConfigVars resolves with
getFabMoConfigVars(bound, answer) ==
    IF bound
    THEN IF answer.err THEN NoConfig
         ELSE IF answer.hasVars /\ answer.variables # NoConfig
              THEN answer.variables ELSE NoConfig
    ELSE NoConfig

CheckLines ==
    {"# A", "' @checkmark $Ran", "' @checkmark &Done", "' @checkmark constructor",
     "PRINT &Name"}

CheckTexts ==
    UNION {{JoinLF(ls) : ls \in [1..n -> CheckLines]} : n \in 1..MaxCheckLines}

\* what the section cards show: the completion of every section
Completion(models, cfgVars) ==
    [i \in DOMAIN models |-> isSectionComplete(models[i], cfgVars)]

InitCheck ==
    /\ hostBound \in BOOLEAN
    /\ code \in CheckTexts
    /\ sectionModels = SectionModelsOf(code)
    /\ values = NoValues
    /\ effectPending = TRUE
    /\ running = FALSE
    /\ runMsg = ""
    /\ configVars = NoConfig
    /\ runs = <<>>
    /\ mountFetch = FALSE
    /\ hist = NoHist
    /\ probe = <<>>
    /\ storage = NoStorage

\* const vars = await getFabMoConfigVars(); setConfigVars(vars); and the
\* render that follows
ConfigFetch(answer) ==
    /\ configVars' = getFabMoConfigVars(hostBound, answer)
    /\ probe' = <<Completion(sectionModels, configVars')>>
    /\ UNCHANGED <<code, sectionModels, values, effectPending, running, runMsg,
                   runs, mountFetch, hostBound, hist, storage>>

SpecCheck == InitCheck /\ [][\E answer \in HostAnswers : ConfigFetch(answer)]_vars

\* v is a value that counts: numerically parseable and nonzero, or not
\* numeric and truthy
CountsAsDone(v) ==
    IF IsFiniteNum(NumberOf(v)) THEN NumberOf(v).v # "0" ELSE Truthy(v)

\* C13: a section is shown complete if and only if it declares at least
\* one checkmark variable and the external state mapping holds, for at least
\* one of them, a value that is not null or undefined and that counts; a
\* section without checkmark variable is never complete.
C13_CompleteIffDeclaredVarSet ==
    probe # <<>> =>
        \A i \in DOMAIN sectionModels :
            probe[1][i] <=>
                /\ Len(sectionModels[i].checkVars) >= 1
                /\ \E j \in DOMAIN sectionModels[i].checkVars :
                      LET name == sectionModels[i].checkVars[j]
                      IN  /\ name \in DOMAIN configVars
                          /\ configVars[name] # Null
                          /\ configVars[name] # Undef
                          /\ CountsAsDone(configVars[name])

\* C18: when the fetch fails (the host answers with an error) or there is
\* no host binding, the mapping is empty and every section is shown
\* incomplete, whatever was shown before.
C18_FailedFetchAllIncomplete ==
    [][\A answer \in HostAnswers :
          (ConfigFetch(answer) /\ (answer.err \/ ~hostBound)) =>
              /\ configVars' = NoConfig
              /\ \A i \in DOMAIN sectionModels : ~probe'[1][i]]_vars

(***************************************************************************)
(* Compiling and submitting a section (specification SpecRun): the text    *)
(* and the store are drawn from bounded sets, the Run button of a section  *)
(* is clicked, and runSection hands toRun to runSbpOnFabMo.                *)
(***************************************************************************)
RunLines ==
    {"# A", "' @input &Name prompt=Who label=Owner", "MS, &Radius",
     "' @input &Radius label=R", "' @input &UseTabs default=yes", "PAUSE"}

RunTexts ==
    UNION {{JoinLF(ls) : ls \in [1..n -> RunLines]} : n \in 1..MaxRunLines}

RunKeys ==
    {keyFor(SecId(i), v) : i \in {0, 1}, v \in {"Name", "Radius", "UseTabs"}}

RunValues ==
    {Str(""), Null, Bool("false"), Num("0"), Num("1.5"), Str("Infinity"),
     Str("a\"b")}

RunStores ==
    UNION {[ks -> RunValues] :
              ks \in {x \in SUBSET RunKeys : Cardinality(x) <= MaxRunEntries}}

InitRun ==
    /\ code \in RunTexts
    /\ sectionModels = SectionModelsOf(code)
    /\ values \in RunStores
    /\ Idle

\* onClick of the Run button of section i, up to the call of runSbpOnFabMo:
\* the statements of the preamble and the text handed over
RunSection(i) ==
    /\ probe = <<>>
    /\ RunEnabled(sectionModels[i])
    /\ probe' = <<[sec |-> i,
                   pre |-> buildPreambleForSection(values, sectionModels[i]),
                   toRun |-> toRun(values, sectionModels[i])]>>
    /\ UNCHANGED <<code, sectionModels, values, effectPending, running, runMsg,
                   configVars, runs, mountFetch, hostBound, hist, storage>>

SpecRun == InitRun /\ [][\E i \in DOMAIN sectionModels : RunSection(i)]_vars

\* the stored value of field f of section sec: undefined when there is none
StoredValue(sec, f) ==
    IF <<sec.id, f.name>> \in DOMAIN values THEN values[<<sec.id, f.name>>]
    ELSE Undef

\* the prompt= text of the directive of field f, or "" when there is none
PromptOf(sec, f) ==
    IF f.name \in DOMAIN sec.directives /\ "prompt" \in DOMAIN sec.directives[f.name]
    THEN sec.directives[f.name]["prompt"] ELSE ""

C15_AssignmentByType ==
    probe # <<>> =>
        LET sec == sectionModels[probe[1].sec]
            pre == probe[1].pre
        IN  \A i \in DOMAIN pre :
              LET f == sec.fields[i]
                  v == StoredValue(sec, f)
              IN  v \notin {Str(""), Null, Undef} =>
                    IF f.type = "number" /\ IsFiniteNum(NumberOf(v))
                    THEN pre[i] = [kind |-> "ASSIGN", var |-> f.name,
                                   arg |-> StringOf(v), quoted |-> FALSE]
                    ELSE IF f.type = "checkbox"
                    THEN pre[i] = [kind |-> "ASSIGN", var |-> f.name,
                                   arg |-> IF Truthy(v) THEN "1" ELSE "0",
                                   quoted |-> FALSE]
                    ELSE pre[i] = [kind |-> "ASSIGN", var |-> f.name,
                                   arg |-> DoubleQuotes(StringOf(v)),
                                   quoted |-> TRUE]

\* the entries of the store that belong to section sec
OwnEntries(sec) ==
    [k \in {x \in DOMAIN values : x[1] = sec.id} |-> values[k]]

\* C16: the text handed to the collaborator by a run of section S is the
\* statements of S's preamble, compiled from the store as it is when Run is
\* clicked, joined by newlines, then a blank line, then S's text; no entry
\* of another section and no line of another section is in it.
C16_PayloadIsPreambleBlankText ==
    probe # <<>> =>
        LET sec == sectionModels[probe[1].sec]
            out == probe[1].toRun
            nf == Len(sec.fields)
            np == IF nf = 0 THEN 1 ELSE nf
            body == SubSeq(code.lines, sec.start + 1, sec.end)
        IN  /\ Len(out.lines) = np + 1 + Len(sec.text.lines)
            /\ \A i \in 1..nf :
                  out.lines[i] =
                      StatementText(PreambleStatement(OwnEntries(sec), sec,
                                                      sec.fields[i]))
            /\ nf = 0 => out.lines[1] = ""
            /\ out.lines[np + 1] = ""
            /\ \A i \in 1..(np + 1) : out.seps[i] = "LF"
            /\ SubSeq(out.lines, np + 2, Len(out.lines)) = sec.text.lines
            /\ SubSeq(out.seps, np + 2, Len(out.seps)) = sec.text.seps
            /\ sec.text.lines = IF body = <<>> THEN <<"">> ELSE body

\* the second of two sections is submitted; its field has no value, the
\* store holds a value for the same name in the first section, and the
\* first section has a line of its own
C16_Witness ==
    /\ probe # <<>>
    /\ probe[1].sec = 2
    /\ sectionModels[1].text.lines # <<"">>
    /\ Len(sectionModels[2].fields) = 1
    /\ \E k \in DOMAIN values :
          /\ k[1] = SecId(0)
          /\ k[2] = sectionModels[2].fields[1].name
          /\ ~IsEmptyVal(values[k])
    /\ OwnEntries(sectionModels[2]) = NoValues

(***************************************************************************)
(* inferField on its own (specification SpecInfer): a variable name and    *)
(* the attributes of its directive are drawn from bounded sets and         *)
(* inferField is applied to them.                                          *)
(***************************************************************************)
InferNames ==
    {"Radius", "DEPTH", "ToolLength", "UseTabs", "UseProxy", "is_ready", "Is_On",
     "Enabled", "Flag1", "Done", "Undo", "Name", "Tool"}

\* cfg: no directive, type= with a value, type="", and no type=
InferCfgs ==
    {NoCfg, "type" :> "number", "type" :> "checkbox", "type" :> "text",
     "type" :> "range", "type" :> "", "label" :> "L",
     "type" :> "text" @@ "default" :> "1.5"}

\* probe holds the arguments, and after the call the result
InitInfer ==
    /\ code = Text(<<"">>, <<>>)
    /\ sectionModels = <<>>
    /\ values = NoValues
    /\ hostBound = FALSE
    /\ effectPending = TRUE
    /\ running = FALSE
    /\ runMsg = ""
    /\ configVars = NoConfig
    /\ runs = <<>>
    /\ mountFetch = FALSE
    /\ hist = NoHist
    /\ storage = NoStorage
    /\ probe \in {<<[varName |-> n, cfg |-> c]>> : n \in InferNames, c \in InferCfgs}

InferStep ==
    /\ Len(probe) = 1
    /\ probe' = Append(probe, inferField(probe[1].varName, probe[1].cfg))
    /\ UNCHANGED <<code, sectionModels, values, effectPending, running, runMsg,
                   configVars, runs, mountFetch, hostBound, hist, storage>>

SpecInfer == InitInfer /\ [][InferStep]_vars

PersistItems ==
    {Item("missing", NoValues), Item("empty", NoValues),
     Item("garbage", StaleKey :> Num("2"))}
    \cup {Item("json", s) : s \in PersistedStores}

PersistStorages ==
    {NoStorage}
    \cup {Storage(FALSE, w, it) : w \in BOOLEAN, it \in PersistItems}

InitPersist ==
    /\ hostBound = FALSE
    /\ code \in AppTexts
    /\ sectionModels = SectionModelsOf(code)
    /\ storage \in PersistStorages
    /\ values = loadLS(storage, NoValues)
    /\ effectPending = TRUE
    /\ running = FALSE
    /\ runMsg = ""
    /\ configVars = NoConfig
    /\ runs = <<>>
    /\ mountFetch = FALSE
    /\ hist = IF StaleKey \in DOMAIN values
              THEN [key |-> StaleKey, uval |-> values[StaleKey],
                    phase |-> "restored"]
              ELSE NoHist
    /\ probe = <<>>

NextPersist ==
    \/ \E t \in AppTexts : TextEdit(t)
    \/ ReconcileEffect
    \/ \E i \in DOMAIN sectionModels : \E j \in DOMAIN sectionModels[i].fields :
          \E val \in {Str(""), Str("abc"), Num("0"), Num("2")} : EditValue(i, j, val)
    \/ \E i \in DOMAIN sectionModels : Reset(i)
    \/ \E i \in DOMAIN sectionModels : Run(i)
    \/ \E r \in DOMAIN runs : \E res \in {Str("ok"), Undef} : SubmitSucceeds(r, res)
    \/ \E r \in DOMAIN runs : \E err \in Failures : SubmitFails(r, err)

SpecPersist == InitPersist /\ [][NextPersist]_vars

\* the item cannot be read: getItem throws, or the item is missing, empty
\* or unparsable
Unreadable(st) == st.getThrows \/ st.item.kind \in {"missing", "empty", "garbage"}

\* C20: a storage that cannot be read gives an empty store at startup, and
\* no entry of the item ever shows up; whatever the storage does, the
\* reconciliation pass can run when it is due, after it the store holds a
\* value for exactly the fields of the section models, and a section with
\* fields can be run when no run is under way; a setItem that throws leaves
\* the item as it is and changes neither the text nor the store.
C20_PersistenceNeverFatal ==
    /\ [](/\ (Unreadable(storage) /\ ~storage.setThrows) => values = NoValues
          /\ Unreadable(storage) => StaleKey \notin DOMAIN values
          /\ effectPending => ENABLED ReconcileEffect
          /\ ~effectPending =>
                /\ DOMAIN values = FieldKeys(sectionModels)
                /\ \A k \in DOMAIN values : values[k] # Undef
          /\ \A i \in DOMAIN sectionModels :
                (~running /\ Len(sectionModels[i].fields) > 0) => ENABLED Run(i))
    /\ [][storage.setThrows =>
             /\ storage' = storage
             /\ (values' # values =>
                    \/ ReconcileEffect
                    \/ \E i \in DOMAIN sectionModels : Reset(i)
                    \/ \E i \in DOMAIN sectionModels :
                          \E j \in DOMAIN sectionModels[i].fields :
                             \E val \in {Str(""), Str("abc"), Num("0"), Num("2")} :
                                EditValue(i, j, val))
             /\ (code' # code => \E t \in AppTexts : TextEdit(t))]_vars

\* the item was unparsable at startup and setItem throws; the pass has
\* filled the defaults, the user has entered a value, and a run compiled
\* from it is under way
C20_Witness ==
    /\ storage.item.kind = "garbage"
    /\ storage.setThrows
    /\ ~effectPending
    /\ hist.phase = "set"
    /\ hist.key \in DOMAIN values
    /\ values[hist.key] = Num("2")
    /\ Len(runs) = 1

(***************************************************************************)
(* Sections that share a variable name (specification SpecShared): the     *)
(* text has up to MaxSharedLines lines, the store is reconciled, the user  *)
(* edits fields, and the preamble of a section is compiled.                *)
(***************************************************************************)
SharedTexts ==
    LET SharedLines == {"# A", "PRINT &Name", "MS, &Radius"}
    IN  UNION {{JoinLF(ls) : ls \in [1..n -> SharedLines]} :
                  n \in 1..MaxSharedLines}

\* the state once the first render and the reconciliation pass are done
InitShared ==
    /\ hostBound = FALSE
    /\ code \in SharedTexts
    /\ sectionModels = SectionModelsOf(code)
    /\ values = Reconcile(NoValues, sectionModels)
    /\ effectPending = FALSE
    /\ running = FALSE
    /\ runMsg = ""
    /\ configVars = NoConfig
    /\ runs = <<>>
    /\ mountFetch = FALSE
    /\ hist = NoHist
    /\ probe = <<>>
    /\ storage = NoStorage

NextShared ==
    \/ \E i \in DOMAIN sectionModels : \E j \in DOMAIN sectionModels[i].fields :
          \E val \in {Str(""), Str("abc"), Num("2")} : EditValue(i, j, val)
    \/ \E i \in DOMAIN sectionModels : RunSection(i)

SpecShared == InitShared /\ [][NextShared]_vars

\* C21: a user edit of field v of section s1 sets the entry s1::v and
\* leaves every other entry, the entry s2::v of another section with a field
\* of the same name included, as it is; the preamble of a section is the
\* preamble that its own entries alone give.
C21_ValuesIndependentPerSection ==
    [][/\ \A i \in DOMAIN sectionModels : \A j \in DOMAIN sectionModels[i].fields :
             \A val \in {Str(""), Str("abc"), Num("2")} :
                EditValue(i, j, val) =>
                    LET k == <<sectionModels[i].id, sectionModels[i].fields[j].name>>
                    IN  /\ DOMAIN values' = DOMAIN values \cup {k}
                        /\ values'[k] = val
                        /\ \A x \in DOMAIN values : x # k => values'[x] = values[x]
       /\ \A n \in DOMAIN sectionModels :
             RunSection(n) =>
                 probe'[1].pre =
                     buildPreambleForSection(OwnEntries(sectionModels[n]),
                                             sectionModels[n])]_vars

\* two sections have a field of the same name; the user has entered a
\* value in the first, the second holds none, and the preamble of the second
\* is compiled: a prompt
C21_Witness ==
    /\ Len(sectionModels) = 2
    /\ Len(sectionModels[1].fields) = 1
    /\ Len(sectionModels[2].fields) = 1
    /\ sectionModels[1].fields[1].name = sectionModels[2].fields[1].name
    /\ hist.phase = "set"
    /\ hist.key = <<SecId(0), sectionModels[1].fields[1].name>>
    /\ values[hist.key] = Str("abc")
    /\ values[<<SecId(1), sectionModels[2].fields[1].name>>] = Str("")
    /\ probe # <<>>
    /\ probe[1].sec = 2
    /\ probe[1].pre[1].kind = "DIALOG"

(***************************************************************************)
(* The directive map on its own (specification SpecDirectives): the text   *)
(* is drawn from the texts of up to MaxDirectiveLines lines, among them    *)
(* directives with a tail that attrRegex matches in part or not at all,    *)
(* and parseDirectivesIn is applied to it.                                 *)
(***************************************************************************)
DirectiveLines ==
    {"' @input &Radius label=R", "' @input &Radius default=1.5",
     "' @input &Radius default", "' @input &Radius label= default=2",
     "' @input &Radius label=\"Tool radius", "' @input &Name",
     "PRINT &Name", ""}

DirectiveTexts ==
    UNION {{JoinLF(ls) : ls \in [1..n -> DirectiveLines]} :
              n \in 1..MaxDirectiveLines}

InitDirectives ==
    /\ code \in DirectiveTexts
    /\ sectionModels = <<>>
    /\ values = NoValues
    /\ Idle

DirectivesStep ==
    /\ probe = <<>>
    /\ probe' = <<parseDirectivesIn(code)>>
    /\ UNCHANGED <<code, sectionModels, values, effectPending, running, runMsg,
                   configVars, runs, mountFetch, hostBound, hist, storage>>

SpecDirectives == InitDirectives /\ [][DirectivesStep]_vars

\* the lines of the text that are an @input directive for v with an
\* attribute tail on the line
C22_DirectivesFor(v) ==
    {i \in DOMAIN SplitLines(code) :
        /\ DirectiveOfLine(SplitLines(code)[i]) # NoDirective
        /\ DirectiveOfLine(SplitLines(code)[i]).var = v}

\* the lines of the text that are an @input line for v, with a tail or not
C22_InputLinesFor(v) ==
    C22_DirectivesFor(v) \cup
        {i \in DOMAIN SplitLines(code) :
            OpenDirectiveOfLine(SplitLines(code)[i]) = Str(v)}

\* C22: the directive map holds for a variable the attributes of the last
\* @input directive for it in text order, and every entry of the map holds
\* keys of the tail of an @input line for its variable only (a tail that is
\* malformed gives fewer keys, never an error).
C22_LastDirectiveWins ==
    probe # <<>> =>
        LET lines == SplitLines(code)
            map == probe[1]
        IN  /\ \A v \in VariableNames :
                  C22_DirectivesFor(v) # {} =>
                      LET last == CHOOSE i \in C22_DirectivesFor(v) :
                                     \A k \in C22_DirectivesFor(v) : k <= i
                      IN  /\ v \in DOMAIN map
                          /\ map[v] = DirectiveOfLine(lines[last]).cfg
            /\ \A v \in DOMAIN map :
                  \E i \in C22_InputLinesFor(v) :
                      DOMAIN map[v] \subseteq DOMAIN AttrsOfLine(lines[i])

(***************************************************************************)
(* The application with collaborators that answer (specification           *)
(* SpecLive): runSbpOnFabMo settles every submission, one way or the       *)
(* other, and getConfig calls back for every fetch.                        *)
(***************************************************************************)
\* the promise of runSbpOnFabMo settles
SubmissionSettles ==
    \/ \E r \in DOMAIN runs : \E res \in {Str("ok"), Undef} : SubmitSucceeds(r, res)
    \/ \E r \in DOMAIN runs : \E err \in Failures : SubmitFails(r, err)

\* the promise of getFabMoConfigVars after a run resolves
FetchSettles == \E r \in DOMAIN runs : \E c \in ConfigMaps : FetchReturns(r, c)

SpecLive == Spec /\ WF_vars(SubmissionSettles) /\ WF_vars(FetchSettles)

\* C23: whenever runSection has set running, running is reset later on,
\* after a submission that succeeds and after one that fails; until then it
\* stays true, during the state fetch that follows a submission as well: it
\* is reset by the step that ends the run and by no other.
C23_RunEventuallyReenabled ==
    /\ running ~> ~running
    /\ [](runs # <<>> => running)
    /\ [][(running /\ ~running') =>
              /\ runs # <<>>
              /\ runs' = <<>>
              /\ \/ \E r \in DOMAIN runs : \E err \in Failures : SubmitFails(r, err)
                 \/ \E r \in DOMAIN runs : \E c \in ConfigMaps : FetchReturns(r, c)
                 \/ /\ ~hostBound
                    /\ \E r \in DOMAIN runs : \E res \in {Str("ok"), Undef} :
                          SubmitSucceeds(r, res)]_vars

\* a run has gone through the submission and the state fetch of a host, and
\* running is reset
C23_Witness ==
    /\ hostBound
    /\ ~running
    /\ runs = <<>>
    /\ runMsg = "ok"
    /\ ~mountFetch
    /\ configVars = NoConfig

(***************************************************************************)
(* Runs of sections with checkmarks (specification SpecRefetch): the text  *)
(* is fixed, its sections are run, and the host answers the submissions    *)
(* and the state fetches.                                                  *)
(***************************************************************************)
RefetchTexts ==
    LET RefetchLines == {"# A", "' @checkmark $Ran", "PRINT &Name"}
    IN  UNION {{JoinLF(ls) : ls \in [1..n -> RefetchLines]} :
                  n \in 1..MaxRefetchLines}

InitRefetch ==
    /\ hostBound \in BOOLEAN
    /\ code \in RefetchTexts
    /\ sectionModels = SectionModelsOf(code)
    /\ values = Reconcile(NoValues, sectionModels)
    /\ effectPending = FALSE
    /\ running = FALSE
    /\ runMsg = ""
    /\ configVars = NoConfig
    /\ runs = <<>>
    /\ mountFetch = hostBound
    /\ hist = NoHist
    /\ probe = <<>>
    /\ storage = NoStorage

NextRefetch ==
    \/ \E i \in DOMAIN sectionModels : Run(i)
    \/ \E r \in DOMAIN runs : \E res \in {Str("ok"), Undef} : SubmitSucceeds(r, res)
    \/ \E r \in DOMAIN runs : \E err \in Failures : SubmitFails(r, err)
    \/ \E r \in DOMAIN runs : \E c \in ConfigMaps : FetchReturns(r, c)
    \/ \E c \in ConfigMaps : MountFetchReturns(c)

SpecRefetch == InitRefetch /\ [][NextRefetch]_vars

\* C24: the state fetch of a run starts in the step that takes the answer
\* of a submission that succeeded, and in no other; running holds while it is
\* out and falls in the step that takes its answer. A step that takes a
\* rejection starts no fetch and leaves the external state mapping, and so
\* the completion of every section, as it was; during a run the mapping
\* changes with the answer of a fetch only.
C24_RefetchOnlyAfterSuccess ==
    /\ [](\A r \in DOMAIN runs : runs[r].pc = "fetching" => running)
    /\ [][/\ \A r \in DOMAIN runs' :
                runs'[r].pc = "fetching" =>
                    \/ r \in DOMAIN runs /\ runs[r].pc = "fetching"
                    \/ /\ r \in DOMAIN runs
                       /\ \E res \in {Str("ok"), Undef} : SubmitSucceeds(r, res)
          /\ \A r \in DOMAIN runs : \A c \in ConfigMaps :
                FetchReturns(r, c) => (running /\ ~running' /\ configVars' = c)
          /\ \A r \in DOMAIN runs : \A err \in Failures :
                SubmitFails(r, err) =>
                    /\ configVars' = configVars
                    /\ Completion(sectionModels', configVars')
                           = Completion(sectionModels, configVars)
                    /\ \A q \in DOMAIN runs' : runs'[q].pc # "fetching"
          /\ configVars' # configVars =>
                \/ \E c \in ConfigMaps : MountFetchReturns(c)
                \/ \E r \in DOMAIN runs : \E c \in ConfigMaps : FetchReturns(r, c)]_vars

\* a submission has been rejected while the mapping held a value that makes
\* a section complete: the mapping and the completion are as they were
C24_Witness ==
    /\ hostBound
    /\ ~running
    /\ runs = <<>>
    /\ runMsg = "busy"
    /\ configVars = ("Ran" :> Str("1"))
    /\ \E i \in DOMAIN sectionModels :
          isSectionComplete(sectionModels[i], configVars)

====
